---- MODULE Spec2Model ----
(***************************************************************************)
(* github-data-fetcher: the Syncer (internal/syncer/syncer.go), the        *)
(* storage it writes through one transaction per repository                *)
(* (internal/database/query.sql, migrations/000001) and the retry wrapper  *)
(* of the GitHub client (internal/github/client.go).                       *)
(*                                                                         *)
(* Ten specifications share the module:                                    *)
(*   Spec      the cycle loop with every step of the per-repository unit,  *)
(*             over the configured identifiers;                            *)
(*   SpecPool  the cycle loop over up to MaxPoolRepos identifiers, the     *)
(*             body of a unit taken as one step (the errgroup limit);      *)
(*   SpecDup   Spec over a list that names one repository twice;           *)
(*   SpecRetry Client.retry around one provider call, with a clock;        *)
(*   SpecPages Client.GetCommits: one retry for each page;                 *)
(*   SpecParse NewSyncer over every list of short strings;                 *)
(*   SpecConfig NewSyncer, then the cycle loop if it returned a Syncer;    *)
(*   SpecTx    one cycle over concurrency + 1 identifiers, each unit with  *)
(*             its transaction;                                            *)
(*   SpecPoolLive the cycle loop with its scheduling (fairness);           *)
(*   SpecJitter two workers drawing from the Client's random source.       *)
(***************************************************************************)
EXTENDS Integers, Sequences, FiniteSets, TLC

\* ------------------------------------------------------------------ bounds
MaxPoolRepos == 6
MaxCycles == 2
MaxRev == 4
MaxPages == 3
MaxStrLen == 4
MaxListLen == 3
RandPeriod == 4

\* ------------------------------------------------------- program constants
concurrency == 5
maxRetries == 5
\* retryMinDelay and retryMaxDelay, in milliseconds.
retryMinDelay == 1000
retryMaxDelay == 120000
\* Syncer.defaultSince (DEFAULT_SYNC_SINCE_DATE), in seconds.
DefaultSince == 2
\* The zone of the storage session, as seconds east of UTC: the postgres
\* image of docker-compose.yml runs in UTC.
SessionUTCOffset == 0

VARIABLES
    config,         \* the strings handed to NewSyncer (cfg.ReposToSync), each a
                    \* sequence of characters; <<>> where the Syncer is taken
                    \* as constructed
    ctor,           \* NewSyncer: "none" | "ok" | the error it returned
    reposToSync,    \* Syncer.reposToSync: the parsed identifiers, in order
    cancelled,      \* the context handed to Start is done
    spc,            \* Start: "init" | "cycle" | "select" | "stopped"
    tickPending,    \* ticker.C holds a tick (a channel of capacity 1)
    tickOwed,       \* history: ticker.C holds a tick that fired before the
                    \* context was cancelled
    idx,            \* runSyncCycle: index of the next identifier to hand to g.Go
    groupCancelled, \* the errgroup cancelled gctx (a worker returned an error)
    cycle,          \* cycles begun so far; also the storage clock read by NOW()
    unit,           \* per list entry: the worker goroutine of this cycle
    upstream,       \* the provider: per repository, how many events of its
                    \* history have happened
    dbRepos,        \* committed rows of table repositories
    dbCommits,      \* committed rows of table commits
    tx,             \* per worker: its open transaction and the rows it wrote
    lastSince,      \* history: per repository, the last 'since' a unit computed
    settled,        \* history: per repository, its previous unit committed and
                    \* the provider's data has not changed since
    rpc,            \* Client.retry: "call" | "examine" | "wait" | "returned"
    attempt,        \* the loop variable of retry
    resp,           \* what the last fn() returned
    clock,          \* the clock, in milliseconds
    wakeAt,         \* when the timer of the current wait fires
    rresult,        \* what retry returned
    trace,          \* history: the provider calls this invocation of retry
                    \* made, each with its time
    page,           \* Client.GetCommits: the page asked for (opts.Page; the
                    \* first page is 1 here, 0 in the options)
    allCommits,     \* the pages whose commits were appended to allCommits
    gcResult,       \* what GetCommits returned: "none" | "ok" | "err"
    rng,            \* Client.r: the state of the random source, as the number
                    \* of values drawn from it (modulo RandPeriod)
    draw            \* per worker: its call of c.r.Float64()

rngVars == <<rng, draw>>
cfgVars == <<config, ctor, rngVars>>
orchVars == <<cfgVars, reposToSync, cancelled, spc, tickPending, tickOwed, idx, groupCancelled, cycle, unit>>
dbVars == <<dbRepos, dbCommits, tx>>
histVars == <<lastSince, settled>>

pageVars == <<page, allCommits, gcResult>>
retryVars == <<rpc, attempt, resp, clock, wakeAt, rresult, trace, pageVars>>

vars == <<orchVars, upstream, dbVars, histVars, retryVars>>

dataVars == <<cfgVars, upstream, dbVars, histVars, retryVars>>

\* REPOS_TO_SYNC of .env.example, parsed.
ConfiguredRepos == <<"google/chromium", "torvalds/linux">>

Units == 1..Len(reposToSync)
Repos == {ConfiguredRepos[i] : i \in 1..Len(ConfiguredRepos)}

\* ------------------------------------------------------------ the provider

\* The history of a repository at the provider, the same for each: two
\* commits are pushed, the second newer than the first; the metadata is
\* edited; a commit arrives late, dated DefaultSince, older than both; then
\* one older than DefaultSince, one dated as the newest, and another edit.
History == <<"push", "push", "edit", "push", "push", "push", "edit">>

\* A commit's author date, in seconds, by sha (shas are numbered as pushed).
DateOf(sha) == <<3, 4, 2, 1, 4>>[sha]

PushedAt(rev) == Cardinality({i \in 1..rev : History[i] = "push"})
MetaAt(rev) == 1 + Cardinality({i \in 1..rev : History[i] = "edit"})

\* Repositories.Get: the provider's metadata of repository r as GetRepository
\* returns it (toInternalRepository). meta stands for the fields that every
\* sync rewrites together: description, language, the four counts and
\* provider-updated-at; 0 is their zero value.
ProviderRepo(r) ==
    [github_repo_id |-> r, key |-> r, meta |-> MetaAt(upstream[r])]

\* Repositories.ListCommits with Since = since, all pages appended: the
\* provider lists the commits dated at or after 'since'.
ProviderCommits(r, since) ==
    {[sha |-> s, date |-> DateOf(s)] :
        s \in {x \in 1..PushedAt(upstream[r]) : DateOf(x) >= since}}

\* ------------------------------------------------------------- the storage

NoRow == [id |-> 0]

\* BIGSERIAL: an id no row has, committed or written by an open transaction.
\* (The gaps a rolled-back insert leaves in the sequence are not kept.)
NextSerial ==
    LET used == {row.id : row \in dbRepos} \cup {tx[u].repo.id : u \in DOMAIN tx}
    IN  CHOOSE i \in 1..(Cardinality(used) + 1) : i \notin used

\* A write that leaves only the transaction's own commits.
ViewOwnCommits(t) == t.commits

\* What a transaction sees: the committed rows, with its own writes on top.
ViewRepos(t) == {row \in dbRepos : row.id # t.repo.id} \cup ({t.repo} \ {NoRow})
ViewCommits(t) == dbCommits \cup t.commits

\* A lookup that never finds the row.
LookupNeverFinds(rows, key) == NoRow

\* GetRepositoryByOwnerAndName: the row, or NoRow for pgx.ErrNoRows.
GetRepositoryByOwnerAndName(rows, key) ==
    IF \E row \in rows : row.key = key
    THEN CHOOSE row \in rows : row.key = key
    ELSE NoRow

\* CreateRepository ... RETURNING *: last_synced_at is not in the column list
\* and stays NULL (0).
CreateRepository(id, gh, now) ==
    [id |-> id, github_repo_id |-> gh.github_repo_id, key |-> gh.key,
     meta |-> gh.meta, last_synced_at |-> 0]

\* An update that also rewrites the provider id.
UpdateRewritesIdentity(row, meta, now) ==
    [row EXCEPT !.meta = meta, !.last_synced_at = now, !.github_repo_id = ""]

\* UpdateRepositorySyncData ... WHERE id = $1 RETURNING *: $2..$8 overwrite
\* the metadata columns; last_synced_at (and updated_at with it) is NOW().
UpdateRepositorySyncData(row, meta, now) ==
    [row EXCEPT !.meta = meta, !.last_synced_at = now]

\* The same query in a session three hours west of UTC.
GetLatestCommitDateWest(commits, id) ==
    LET mine == {c \in commits : c.repository_id = id}
    IN  IF mine = {}
        THEN [valid |-> FALSE, time |-> 0]
        ELSE [valid |-> TRUE,
              time |-> (CHOOSE d \in {c.commit_date : c \in mine} :
                           \A c \in mine : c.commit_date <= d) - 3]

\* SELECT MAX(commit_date)::timestamp ... WHERE repository_id = $1, scanned
\* into pgtype.Timestamp: Valid is false for the NULL of an empty set; the
\* cast drops the zone in the session's zone and the wall clock is read back
\* as UTC.
GetLatestCommitDateForRepo(commits, id) ==
    LET mine == {c \in commits : c.repository_id = id}
    IN  IF mine = {}
        THEN [valid |-> FALSE, time |-> 0]
        ELSE [valid |-> TRUE,
              time |-> (CHOOSE d \in {c.commit_date : c \in mine} :
                           \A c \in mine : c.commit_date <= d) + SessionUTCOffset]

\* getSinceTimestamp without the added second.
SinceNoOffset(latest) ==
    IF ~latest.valid THEN DefaultSince ELSE latest.time

\* getSinceTimestamp, after the query succeeded.
SinceTimestamp(latest) ==
    IF ~latest.valid THEN DefaultSince ELSE latest.time + 1

\* A batch whose rows do not carry the repository's id.
PrepareWithoutRepoID(id, commits) ==
    {[repository_id |-> 0, sha |-> c.sha, commit_date |-> c.date] : c \in commits}

\* prepareCommitBulkInsert.
PrepareCommitBulkInsert(id, commits) ==
    {[repository_id |-> id, sha |-> c.sha, commit_date |-> c.date] : c \in commits}

\* PRIMARY KEY (repository_id, sha): the COPY is rejected as a whole when a
\* row of the batch has the key of a row the transaction sees.
ViolatesCommitKey(seen, batch) ==
    \E b \in batch : \E c \in seen :
        c.repository_id = b.repository_id /\ c.sha = b.sha

\* The zero value of UpdateRepositorySyncDataParams{ID: dbRepo.ID}: every
\* field but ID is left unset.
TouchMeta(row) == 0

\* The committed rows of repository key r, and of its commits.
RowsOf(r) == {row \in dbRepos : row.key = r}
CommitsOf(r) == {c \in dbCommits : \E row \in dbRepos : row.key = r /\ row.id = c.repository_id}

\* ------------------------------------------------------------- the workers

NoTx == [open |-> FALSE, repo |-> NoRow, commits |-> {}]

\* A worker that has not been handed to g.Go in this cycle.
PendingUnit ==
    [pc |-> "pending", outcome |-> "none",
     ghRepo |-> [github_repo_id |-> "", key |-> "", meta |-> 0],
     dbRepoID |-> 0, since |-> 0, commits |-> {},
     snapRepos |-> {}, snapCommits |-> {}, stable |-> FALSE]
\* (snapRepos and snapCommits are history: the committed rows of the unit's
\* repository when the unit began; stable is history too: 'settled' then.)

\* A context that is never seen done.
GctxNeverDone == FALSE

\* gctx.Err() != nil: the parent context is done, or the group cancelled it.
GctxDone == cancelled \/ groupCancelled

\* Workers that hold a slot of the errgroup semaphore: handed to g.Go and not
\* yet returned.
Active == {u \in Units : unit[u].pc \notin {"pending", "done"}}

\* A group with no limit set: g.Go never blocks.
SlotFreeNoLimit(active) == TRUE

\* g.Go with SetLimit(concurrency): the send on g.sem blocks while all slots
\* are taken.
SlotFree(active) == Cardinality(active) < concurrency

\* A worker that hands the unit's error to the group.
WorkerReturnsErr(err) == err

\* What the function handed to g.Go returns for a unit that ended with err:
\* the error is logged and nil is returned.
WorkerReturn(err) == "nil"

\* ----------------------------------------------------------- Start / cycle

\* A Start whose ticker starts a cycle while one is running.
BeginCycleOverlapping ==
    /\ \/ spc = "init"
       \/ spc \in {"select", "cycle"} /\ tickPending
    /\ cycle < MaxCycles
    /\ spc' = "cycle"
    /\ tickPending' = IF spc = "init" THEN tickPending ELSE FALSE
    /\ tickOwed' = IF spc = "init" THEN tickOwed ELSE FALSE
    /\ idx' = 1
    /\ groupCancelled' = FALSE
    /\ cycle' = cycle + 1
    /\ unit' = [u \in Units |-> PendingUnit]
    /\ UNCHANGED <<reposToSync, cancelled, dataVars>>

\* s.runSyncCycle(ctx) is entered: the initial call, or the ticker case of
\* the select. errgroup.WithContext makes a fresh gctx.
BeginCycle ==
    /\ \/ spc = "init"
       \/ spc = "select" /\ tickPending
    /\ cycle < MaxCycles
    /\ spc' = "cycle"
    /\ tickPending' = IF spc = "select" THEN FALSE ELSE tickPending
    /\ tickOwed' = IF spc = "select" THEN FALSE ELSE tickOwed
    /\ idx' = 1
    /\ groupCancelled' = FALSE
    /\ cycle' = cycle + 1
    /\ unit' = [u \in Units |-> PendingUnit]
    /\ UNCHANGED <<reposToSync, cancelled, dataVars>>

\* A loop that hands a failed unit to g.Go again within the cycle.
DispatchRetrying ==
    /\ spc = "cycle"
    /\ SlotFree(Active)
    /\ \/ /\ idx <= Len(reposToSync)
          /\ unit' = [unit EXCEPT ![idx].pc = "spawned"]
          /\ idx' = idx + 1
       \/ /\ \E u \in Units :
                /\ unit[u].outcome = "failed"
                /\ unit' = [unit EXCEPT ![u] = [PendingUnit EXCEPT !.pc = "spawned"]]
          /\ idx' = idx
    /\ UNCHANGED <<reposToSync, cancelled, spc, tickPending, tickOwed, groupCancelled, cycle, dataVars>>

\* One iteration of the for loop: g.Go(...) for reposToSync[idx].
Dispatch ==
    /\ spc = "cycle"
    /\ idx <= Len(reposToSync)
    /\ SlotFree(Active)
    /\ unit' = [unit EXCEPT ![idx].pc = "spawned"]
    /\ idx' = idx + 1
    /\ UNCHANGED <<reposToSync, cancelled, spc, tickPending, tickOwed, groupCancelled, cycle, dataVars>>

\* The worker's first statement: if gctx.Err() != nil { return nil }.
\* Otherwise it calls syncRepoInTransaction.
UnitEnter(u) ==
    /\ unit[u].pc = "spawned"
    /\ \/ /\ GctxDone
          /\ unit' = [unit EXCEPT ![u].pc = "done", ![u].outcome = "skipped"]
       \/ /\ ~GctxDone
          /\ unit' = [unit EXCEPT ![u].pc = "begin",
                                  ![u].snapRepos = RowsOf(reposToSync[u]),
                                  ![u].snapCommits = CommitsOf(reposToSync[u])]
    /\ UNCHANGED <<reposToSync, cancelled, spc, tickPending, tickOwed, idx, groupCancelled, cycle, dataVars>>

\* The worker returns: errgroup cancels gctx when the returned error is not nil.
GroupAfter(err) == groupCancelled \/ WorkerReturn(err) # "nil"

\* syncRepoInTransaction as one step (SpecPool): it returns nil, an error, or
\* the context's error when the context is done.
PoolUnitRun(u) ==
    /\ unit[u].pc = "begin"
    /\ \E o \in (IF GctxDone THEN {"cancelled"} ELSE {"committed", "failed"}) :
          /\ unit' = [unit EXCEPT ![u].pc = "done", ![u].outcome = o]
          /\ groupCancelled' = GroupAfter(IF o = "committed" THEN "nil" ELSE o)
    /\ UNCHANGED <<reposToSync, cancelled, spc, tickPending, tickOwed, idx, cycle, dataVars>>

\* A cycle that does not wait for its workers.
GroupNoWait(active) == TRUE

\* g.Wait(): it returns when every worker handed to g.Go has returned.
GroupWaitDone(active) == active = {}

\* g.Wait() returns: every identifier was handed to g.Go and every worker returned.
EndCycle ==
    /\ spc = "cycle"
    /\ idx > Len(reposToSync)
    /\ GroupWaitDone(Active)
    /\ spc' = "select"
    /\ unit' = [u \in Units |-> PendingUnit]
    /\ UNCHANGED <<reposToSync, cancelled, tickPending, tickOwed, idx, groupCancelled, cycle, dataVars>>

\* The ticker fires; a tick that finds the channel full is dropped.
Tick ==
    /\ spc # "stopped"
    /\ ~tickPending
    /\ tickPending' = TRUE
    /\ tickOwed' = ~cancelled
    /\ UNCHANGED <<reposToSync, cancelled, spc, idx, groupCancelled, cycle, unit, dataVars>>

\* SIGINT/SIGTERM: the context is cancelled.
Cancel ==
    /\ ~cancelled
    /\ cancelled' = TRUE
    /\ UNCHANGED <<reposToSync, spc, tickPending, tickOwed, idx, groupCancelled, cycle, unit, dataVars>>

\* A select in Start without the ctx.Done() case.
StartWithoutDoneCase ==
    /\ FALSE
    /\ UNCHANGED <<reposToSync, cancelled, spc, tickPending, tickOwed, idx, groupCancelled, cycle, unit, dataVars>>

\* A Start that returns after a cycle whatever the context.
ShutdownAnytime ==
    /\ spc = "select"
    /\ spc' = "stopped"
    /\ UNCHANGED <<reposToSync, cancelled, tickPending, tickOwed, idx, groupCancelled, cycle, unit, dataVars>>

\* The ctx.Done() case of the select in Start.
Shutdown ==
    /\ spc = "select"
    /\ cancelled
    /\ spc' = "stopped"
    /\ UNCHANGED <<reposToSync, cancelled, tickPending, tickOwed, idx, groupCancelled, cycle, unit, dataVars>>

NoResp == [kind |-> "none", arg |-> 0]

\* Two of the workers of a cycle, each in Client.retry on the one Client the
\* Syncer holds (s.ghClient).
RandCallers == {1, 2}

\* The state after construction, but for config and ctor.
BaseState(list) ==
    /\ reposToSync = list
    /\ cancelled = FALSE
    /\ spc = "init"
    /\ tickPending = FALSE
    /\ tickOwed = FALSE
    /\ idx = 1
    /\ groupCancelled = FALSE
    /\ cycle = 0
    /\ unit = [u \in 1..Len(list) |-> PendingUnit]
    /\ upstream = [r \in Repos |-> 0]
    /\ dbRepos = {}
    /\ dbCommits = {}
    /\ tx = [u \in 1..Len(list) |-> NoTx]
    /\ lastSince = [r \in Repos |-> 0]
    /\ settled = [r \in Repos |-> FALSE]
    /\ rpc = "call"
    /\ attempt = 0
    /\ resp = NoResp
    /\ clock = 0
    /\ wakeAt = 0
    /\ rresult = "none"
    /\ trace = <<>>
    /\ page = 1
    /\ allCommits = <<>>
    /\ gcResult = "none"
    /\ rng = 0
    /\ draw = [w \in RandCallers |-> [pc |-> "out", seen |-> 0, got |-> 0]]

\* NewSyncer returned a Syncer for the identifiers of list.
OrchInit(list) ==
    /\ BaseState(list)
    /\ config = <<>>
    /\ ctor = "ok"

\* ------------------------------------------------ syncRepoInTransaction

RepoOf(u) == reposToSync[u]

loopVars == <<cfgVars, reposToSync, cancelled, spc, tickPending, tickOwed, idx, cycle>>

\* A unit whose repository write is made outside the transaction: it stays
\* when the transaction is rolled back.
RollbackKeepsRepo(u) ==
    /\ tx' = [tx EXCEPT ![u] = NoTx]
    /\ dbRepos' = ViewRepos(tx[u])
    /\ UNCHANGED dbCommits

\* A unit that returns an error without the deferred Rollback.
RollbackLeavesOpen(u) ==
    UNCHANGED <<tx, dbRepos, dbCommits>>

\* defer tx.Rollback(ctx): the rows the transaction wrote are discarded.
Rollback(u) ==
    /\ tx' = [tx EXCEPT ![u] = NoTx]
    /\ UNCHANGED <<dbRepos, dbCommits>>

\* A step returned an error (kind "failed"), or the context's error (kind
\* "cancelled"): syncRepoInTransaction returns it, the deferred Rollback
\* runs, the worker logs it and returns.
Abort(u, kind) ==
    /\ unit' = [unit EXCEPT ![u] = [PendingUnit EXCEPT
                     !.pc = "done", !.outcome = kind, !.dbRepoID = unit[u].dbRepoID,
                     !.snapRepos = unit[u].snapRepos, !.snapCommits = unit[u].snapCommits]]
    /\ Rollback(u)
    /\ groupCancelled' = GroupAfter(kind)
    /\ settled' = [settled EXCEPT ![RepoOf(u)] = FALSE]
    /\ UNCHANGED <<loopVars, upstream, lastSince, retryVars>>

\* A step whose call takes the context fails with the context's error once
\* the context is done; otherwise it may fail with an error of its own.
StepFails(u) ==
    \/ GctxDone /\ Abort(u, "cancelled")
    \/ ~GctxDone /\ Abort(u, "failed")

\* tx, err := s.dbpool.Begin(ctx)
TxBegin(u) ==
    /\ unit[u].pc = "begin"
    /\ \/ StepFails(u)
       \/ /\ ~GctxDone
          /\ tx' = [tx EXCEPT ![u] = [open |-> TRUE, repo |-> NoRow, commits |-> {}]]
          /\ unit' = [unit EXCEPT ![u].pc = "getRepository",
                                  ![u].stable = settled[RepoOf(u)]]
          /\ UNCHANGED <<loopVars, groupCancelled, upstream, dbRepos, dbCommits, histVars, retryVars>>

\* ghRepo, err := s.ghClient.GetRepository(ctx, id.Owner, id.Name)
GetRepository(u) ==
    /\ unit[u].pc = "getRepository"
    /\ \/ StepFails(u)
       \/ /\ ~GctxDone
          /\ unit' = [unit EXCEPT ![u].pc = "upsert", ![u].ghRepo = ProviderRepo(RepoOf(u))]
          /\ UNCHANGED <<loopVars, groupCancelled, upstream, dbVars, histVars, retryVars>>

\* A storage that lets two transactions write a row of one key at a time.
RowNeverBusy(u, key) == FALSE

\* CONSTRAINT uq_owner_name UNIQUE (owner, name), and the row lock of an
\* UPDATE: a write of a repository row waits while another open transaction
\* holds an uncommitted row of the same owner and name. (When that
\* transaction commits, an INSERT that waited fails on the constraint, which
\* is the failing branch of the step; a lookup made after finds the row.)
RowBusy(u, key) ==
    \E v \in DOMAIN tx : v # u /\ tx[v].repo # NoRow /\ tx[v].repo.key = key

\* upsertRepository: the row it writes, given the rows the transaction sees.
UpsertRow(rows, gh, id, now) ==
    LET existing == GetRepositoryByOwnerAndName(rows, gh.key)
    IN  IF existing = NoRow
        THEN CreateRepository(id, gh, now)
        ELSE UpdateRepositorySyncData(existing, gh.meta, now)

\* dbRepo, err := s.upsertRepository(ctx, q, ghRepo)
UpsertRepository(u) ==
    /\ unit[u].pc = "upsert"
    /\ \/ StepFails(u)
       \/ /\ ~GctxDone
          /\ ~RowBusy(u, unit[u].ghRepo.key)
          /\ LET row == UpsertRow(ViewRepos(tx[u]), unit[u].ghRepo, NextSerial, cycle)
             IN  /\ tx' = [tx EXCEPT ![u].repo = row]
                 /\ unit' = [unit EXCEPT ![u].pc = "since", ![u].dbRepoID = row.id]
          /\ UNCHANGED <<loopVars, groupCancelled, upstream, dbRepos, dbCommits, histVars, retryVars>>

\* since, err := s.getSinceTimestamp(ctx, q, dbRepo.ID)
GetSinceTimestamp(u) ==
    /\ unit[u].pc = "since"
    /\ \/ StepFails(u)
       \/ /\ ~GctxDone
          /\ LET since == SinceTimestamp(
                              GetLatestCommitDateForRepo(ViewCommits(tx[u]), unit[u].dbRepoID))
             IN  /\ unit' = [unit EXCEPT ![u].pc = "getCommits", ![u].since = since]
                 /\ lastSince' = [lastSince EXCEPT ![RepoOf(u)] = since]
          /\ UNCHANGED <<loopVars, groupCancelled, upstream, dbVars, settled, retryVars>>

\* commits, err := s.ghClient.GetCommits(ctx, id.Owner, id.Name, since)
GetCommits(u) ==
    /\ unit[u].pc = "getCommits"
    /\ \/ StepFails(u)
       \/ /\ ~GctxDone
          /\ unit' = [unit EXCEPT ![u].pc = "persist",
                                  ![u].commits = ProviderCommits(RepoOf(u), unit[u].since)]
          /\ UNCHANGED <<loopVars, groupCancelled, upstream, dbVars, histVars, retryVars>>

\* len(commits) == 0: q.UpdateRepositorySyncData(ctx, {ID: dbRepo.ID});
\* otherwise q.CreateCommits(ctx, prepareCommitBulkInsert(dbRepo.ID, commits)).
Persist(u) ==
    /\ unit[u].pc = "persist"
    /\ \/ StepFails(u)
       \/ /\ ~GctxDone
          /\ unit[u].commits = {}
          /\ tx' = [tx EXCEPT ![u].repo =
                        UpdateRepositorySyncData(tx[u].repo, TouchMeta(tx[u].repo), cycle)]
          /\ unit' = [unit EXCEPT ![u].pc = "commit"]
          /\ UNCHANGED <<loopVars, groupCancelled, upstream, dbRepos, dbCommits, histVars, retryVars>>
       \/ /\ ~GctxDone
          /\ unit[u].commits # {}
          /\ LET batch == PrepareCommitBulkInsert(unit[u].dbRepoID, unit[u].commits)
             IN  IF ViolatesCommitKey(ViewCommits(tx[u]), batch)
                 THEN Abort(u, "failed")
                 ELSE /\ tx' = [tx EXCEPT ![u].commits = batch]
                      /\ unit' = [unit EXCEPT ![u].pc = "commit"]
                      /\ UNCHANGED <<loopVars, groupCancelled, upstream, dbRepos,
                                     dbCommits, histVars, retryVars>>

\* return tx.Commit(ctx): the rows the transaction wrote become the
\* committed rows, all at once.
TxCommit(u) ==
    /\ unit[u].pc = "commit"
    /\ \/ StepFails(u)
       \/ /\ ~GctxDone
          /\ dbRepos' = ViewRepos(tx[u])
          /\ dbCommits' = ViewCommits(tx[u])
          /\ tx' = [tx EXCEPT ![u] = NoTx]
          /\ unit' = [unit EXCEPT ![u].pc = "done", ![u].outcome = "committed"]
          /\ groupCancelled' = GroupAfter("nil")
          /\ settled' = [settled EXCEPT ![RepoOf(u)] = TRUE]
          /\ UNCHANGED <<loopVars, upstream, lastSince, retryVars>>

\* The provider's data changes between two cycles. (The unit reads the
\* provider at two points, each read one snapshot; a change during a cycle
\* is read either by this cycle's unit or by the next one's, as a change
\* made before or after the cycle is.)
Quiet == spc \in {"init", "select"}

\* The provider: the next event of the history of repository r happens.
UpstreamChange(r) ==
    /\ Quiet
    /\ upstream[r] < MaxRev
    /\ upstream' = [upstream EXCEPT ![r] = @ + 1]
    /\ settled' = [settled EXCEPT ![r] = FALSE]
    /\ UNCHANGED <<orchVars, dbVars, lastSince, retryVars>>

\* -------------------------------------------------------------------- Spec

\* (A tick that fires while a cycle runs waits in the channel for the
\* select, as one that fires right after the cycle: Spec takes the latter.)
Init == OrchInit(ConfiguredRepos)

Next ==
    \/ BeginCycle
    \/ Dispatch
    \/ \E u \in Units : UnitEnter(u)
    \/ \E u \in Units : TxBegin(u)
    \/ \E u \in Units : GetRepository(u)
    \/ \E u \in Units : UpsertRepository(u)
    \/ \E u \in Units : GetSinceTimestamp(u)
    \/ \E u \in Units : GetCommits(u)
    \/ \E u \in Units : Persist(u)
    \/ \E u \in Units : TxCommit(u)
    \/ EndCycle
    \/ (spc = "select" /\ Tick)
    \/ Cancel
    \/ Shutdown
    \/ \E r \in Repos : UpstreamChange(r)

Spec == Init /\ [][Next]_vars

\* ----------------------------------------------------------------- SpecDup

\* REPOS_TO_SYNC names one repository twice: parseRepoIdentifiers keeps both
\* entries and runSyncCycle starts a unit for each.
InitDup == OrchInit(<<ConfiguredRepos[1], ConfiguredRepos[1]>>)

NextDup ==
    \/ BeginCycle
    \/ Dispatch
    \/ \E u \in Units : UnitEnter(u)
    \/ \E u \in Units : TxBegin(u)
    \/ \E u \in Units : GetRepository(u)
    \/ \E u \in Units : UpsertRepository(u)
    \/ \E u \in Units : GetSinceTimestamp(u)
    \/ \E u \in Units : GetCommits(u)
    \/ \E u \in Units : Persist(u)
    \/ \E u \in Units : TxCommit(u)
    \/ EndCycle
    \/ (spc = "select" /\ Tick)
    \/ Cancel
    \/ Shutdown
    \/ \E u \in Units : UpstreamChange(RepoOf(u))

SpecDup == InitDup /\ [][NextDup]_vars

\* ------------------------------------------------------------------ SpecTx

\* s.syncRepo(ctx, q, id) returned nil, every step of it taken at once and
\* what it wrote left out: the transaction is open and is to be committed.
SyncRepoReturnsNil(u) ==
    /\ unit[u].pc = "getRepository"
    /\ ~GctxDone
    /\ unit' = [unit EXCEPT ![u].pc = "commit"]
    /\ UNCHANGED <<loopVars, groupCancelled, upstream, dbVars, histVars, retryVars>>

\* s.syncRepo(ctx, q, id) returned an error.
SyncRepoFails(u) ==
    /\ unit[u].pc = "getRepository"
    /\ StepFails(u)

\* One identifier more than workers, each with a transaction of its own. (The
\* ticker is left out: a cycle ends with every unit as it was before the
\* cycle began, so that a second cycle repeats the first.)
InitTx == OrchInit([i \in 1..(concurrency + 1) |-> ConfiguredRepos[1]])

NextTx ==
    \/ BeginCycle
    \/ Dispatch
    \/ \E u \in Units : UnitEnter(u)
    \/ \E u \in Units : TxBegin(u)
    \/ \E u \in Units : SyncRepoReturnsNil(u)
    \/ \E u \in Units : SyncRepoFails(u)
    \/ \E u \in Units : TxCommit(u)
    \/ EndCycle
    \/ Cancel
    \/ Shutdown

SpecTx == InitTx /\ [][NextTx]_vars

\* ---------------------------------------------------------------- SpecPool

InitPool == \E n \in 1..MaxPoolRepos : OrchInit([i \in 1..n |-> i])

NextPool ==
    \/ BeginCycle
    \/ Dispatch
    \/ \E u \in Units : UnitEnter(u)
    \/ \E u \in Units : PoolUnitRun(u)
    \/ EndCycle
    \/ Tick
    \/ Cancel
    \/ Shutdown

SpecPool == InitPool /\ [][NextPool]_vars

\* The cycle loop over one identifier more than workers, with the
\* scheduling the program has: a goroutine that can take a
\* step takes it (the loop of runSyncCycle, each worker, g.Wait returning);
\* the select of Start picks among its ready cases at random, so that the
\* ctx.Done() case is taken if it is ready again and again.
FairPool ==
    /\ WF_vars(BeginCycle /\ spc = "init")
    /\ WF_vars(Dispatch)
    /\ \A u \in 1..(concurrency + 1) : WF_vars(UnitEnter(u))
    /\ \A u \in 1..(concurrency + 1) : WF_vars(PoolUnitRun(u))
    /\ WF_vars(EndCycle)
    /\ SF_vars(Shutdown)

InitLive == OrchInit([i \in 1..(concurrency + 1) |-> i])

SpecPoolLive == InitLive /\ [][NextPool]_vars /\ FairPool

\* ------------------------------------------------------------ Client.retry

\* What one provider call can answer: success; a RateLimitError carrying
\* Rate.Reset; an AbuseRateLimitError carrying RetryAfter; an error response
\* with a 5xx status; one with a 4xx status; an error with no response.
Responses ==
    {[kind |-> "ok", arg |-> 0], [kind |-> "5xx", arg |-> 0],
     [kind |-> "4xx", arg |-> 0], [kind |-> "neterr", arg |-> 0]}
    \cup {[kind |-> "rate", arg |-> r] : r \in {3000, 5000}}
    \cup {[kind |-> "abuse", arg |-> w] : w \in {0, 2000}}

\* c.r.Float64(), in quarters: 0, 1/4, 1/2, 3/4.
Jitters == 0..3

\* A rate-limit wait that ignores the reset time.
RateLimitNoSleep(reset, t) == 0

\* time.Until(rateLimitErr.Rate.Reset.Time)
RateLimitSleep(reset, t) == reset - t

\* A throttle wait that is the first backoff delay, whatever was suggested.
AbuseSleepsBackoff(retryAfter) == retryMinDelay

\* abuseErr.GetRetryAfter()
AbuseSleep(retryAfter) == retryAfter

\* backoff := retryMinDelay * 2^attempt, capped at retryMaxDelay.
Backoff(a) ==
    IF retryMinDelay * (2 ^ a) > retryMaxDelay THEN retryMaxDelay
    ELSE retryMinDelay * (2 ^ a)

\* sleepDuration := backoff + (c.r.Float64() - 0.5) * backoff * 0.5
BackoffSleep(a, j) == Backoff(a) + ((j - 2) * Backoff(a)) \div 8

\* time.After(d): the timer fires d from now, at once when d <= 0.
TimerAt(t, d) == IF d > 0 THEN t + d ELSE t

retryFrame == <<orchVars, upstream, dbVars, histVars, pageVars>>

\* A loop that allows one iteration more.
LoopContinuesInclusive(a) == a <= maxRetries

\* A loop that gives up one iteration early.
LoopContinuesShort(a) == a < maxRetries - 1

\* for attempt := 0; attempt < maxRetries; attempt++: the loop condition.
LoopContinues(a) == a < maxRetries

\* A check that takes every error status for a server error.
IsErrorStatus(r) == r.kind \in {"5xx", "4xx"}

\* resp != nil && resp.StatusCode >= 500
IsServerError(r) == r.kind = "5xx"

\* A wait that does not look at the context (time.Sleep).
SleepIgnoresCtx(done, w, t) == TRUE

\* select { case <-time.After(d): ...; case <-ctx.Done(): ... }: the timer
\* case can be taken when the timer has fired, or, the context not being
\* done, once it fires.
TimerCase(done, w, t) == ~done \/ w <= t

\* resp, err = fn(): one provider call. With the context done the call
\* fails; err == nil returns nil at once.
RetryCall ==
    /\ rpc = "call"
    /\ \E r \in (IF cancelled THEN {[kind |-> "ctxerr", arg |-> 0]} ELSE Responses) :
          /\ trace' = Append(trace, [kind |-> r.kind, arg |-> r.arg, at |-> clock])
          /\ resp' = r
          /\ IF r.kind = "ok"
             THEN rpc' = "returned" /\ rresult' = "ok"
             ELSE rpc' = "examine" /\ rresult' = rresult
    /\ UNCHANGED <<attempt, clock, wakeAt, retryFrame>>

\* A loop that does not look at the context after a failed call.
CtxErrIgnored(done) == FALSE

\* if ctx.Err() != nil { return ctx.Err() }
CtxErr(done) == done

\* err != nil: ctx.Err() first, then the kind of the error decides the wait;
\* an error that is none of the three kinds is returned.
RetryExamine ==
    /\ rpc = "examine"
    /\ \/ /\ CtxErr(cancelled)
          /\ rpc' = "returned" /\ rresult' = "cancelled"
          /\ UNCHANGED wakeAt
       \/ /\ ~CtxErr(cancelled)
          /\ resp.kind = "rate"
          /\ rpc' = "wait" /\ wakeAt' = TimerAt(clock, RateLimitSleep(resp.arg, clock))
          /\ UNCHANGED rresult
       \/ /\ ~CtxErr(cancelled)
          /\ resp.kind = "abuse"
          /\ rpc' = "wait" /\ wakeAt' = TimerAt(clock, AbuseSleep(resp.arg))
          /\ UNCHANGED rresult
       \/ /\ ~CtxErr(cancelled)
          /\ resp.kind \notin {"rate", "abuse"}
          /\ IsServerError(resp)
          /\ \E j \in Jitters :
                wakeAt' = TimerAt(clock, BackoffSleep(attempt, j))
          /\ rpc' = "wait"
          /\ UNCHANGED rresult
       \/ /\ ~CtxErr(cancelled)
          /\ resp.kind \notin {"rate", "abuse"}
          /\ ~IsServerError(resp)
          /\ rpc' = "returned" /\ rresult' = resp.kind
          /\ UNCHANGED wakeAt
    /\ UNCHANGED <<attempt, resp, clock, trace, retryFrame>>

\* case <-time.After(sleepDuration): continue. The loop ends, returning the
\* last error, when attempt reaches maxRetries.
RetryWake ==
    /\ rpc = "wait"
    /\ TimerCase(cancelled, wakeAt, clock)
    /\ clock' = IF wakeAt > clock THEN wakeAt ELSE clock
    /\ attempt' = attempt + 1
    /\ IF LoopContinues(attempt + 1)
       THEN rpc' = "call" /\ rresult' = rresult
       ELSE rpc' = "returned" /\ rresult' = resp.kind
    /\ UNCHANGED <<resp, wakeAt, trace, retryFrame>>

\* case <-ctx.Done(): return ctx.Err()
RetryInterrupt ==
    /\ rpc = "wait"
    /\ cancelled
    /\ rpc' = "returned" /\ rresult' = "cancelled"
    /\ UNCHANGED <<attempt, resp, clock, wakeAt, trace, retryFrame>>

InitRetry == OrchInit(<<>>)

NextRetry ==
    \/ RetryCall
    \/ RetryExamine
    \/ RetryWake
    \/ RetryInterrupt
    \/ (rpc # "returned" /\ Cancel)

SpecRetry == InitRetry /\ [][NextRetry]_vars

\* ------------------------------------------------------------- Client.r

\* c.r is rand.New(rand.NewSource(seed)): a source of this kind has no lock,
\* and retry calls c.r.Float64() with none held. Float64 reads the state of
\* the source and writes the advanced state back; a worker in the 5xx branch
\* does the two as two steps, and what interleaves with them is whatever the
\* other workers do.
rngFrame == <<config, ctor, reposToSync, cancelled, spc, tickPending, tickOwed, idx,
              groupCancelled, cycle, unit, upstream, dbVars, histVars, retryVars>>

\* Worker w enters c.r.Float64() and reads the state of the source.
Float64Load(w) ==
    /\ draw[w].pc = "out"
    /\ draw' = [draw EXCEPT ![w] = [pc |-> "in", seen |-> rng, got |-> draw[w].got]]
    /\ UNCHANGED <<rng, rngFrame>>

\* Worker w writes the advanced state and returns the value it drew.
Float64Store(w) ==
    /\ draw[w].pc = "in"
    /\ rng' = (draw[w].seen + 1) % RandPeriod
    /\ draw' = [draw EXCEPT ![w] = [pc |-> "out", seen |-> draw[w].seen,
                                     got |-> draw[w].seen]]
    /\ UNCHANGED rngFrame

InitJitter == OrchInit(<<>>)

NextJitter ==
    \/ \E w \in RandCallers : Float64Load(w)
    \/ \E w \in RandCallers : Float64Store(w)

SpecJitter == InitJitter /\ [][NextJitter]_vars

\* ------------------------------------------------------- Client.GetCommits

\* A retry that goes on with the attempts the page before left.
AttemptCarried(a) == a

\* c.retry is entered: attempt := 0.
AttemptAtEntry(a) == 0

\* resp.NextPage as the provider sets it: 0 after the last page, else the
\* page after the one asked for.
NextPageOf(p) == IF p < MaxPages THEN {0, p + 1} ELSE {0}

\* c.retry returned nil for the page: its commits are appended; NextPage == 0
\* breaks the loop and GetCommits returns allCommits, otherwise opts.Page is
\* set and c.retry is called for the next page.
GetCommitsAppend ==
    /\ gcResult = "none"
    /\ rpc = "returned" /\ rresult = "ok"
    /\ allCommits' = Append(allCommits, page)
    /\ \E next \in NextPageOf(page) :
          IF next = 0
          THEN /\ gcResult' = "ok"
               /\ UNCHANGED <<page, rpc, attempt, resp, wakeAt, rresult, trace>>
          ELSE /\ page' = next
               /\ rpc' = "call"
               /\ attempt' = AttemptAtEntry(attempt)
               /\ resp' = NoResp
               /\ wakeAt' = 0
               /\ rresult' = "none"
               /\ trace' = <<>>
               /\ UNCHANGED gcResult
    /\ UNCHANGED <<clock, orchVars, upstream, dbVars, histVars>>

\* c.retry returned an error for the page: return nil, err.
GetCommitsFail ==
    /\ gcResult = "none"
    /\ rpc = "returned" /\ rresult # "ok"
    /\ gcResult' = "err"
    /\ allCommits' = <<>>
    /\ UNCHANGED <<page, rpc, attempt, resp, clock, wakeAt, rresult, trace,
                   orchVars, upstream, dbVars, histVars>>

\* The answers and the jitter SpecPages draws: success, a 5xx and a 4xx
\* status; the jitter at its middle.
PageKinds == {"ok", "5xx", "4xx"}

InitPages == OrchInit(<<>>)

NextPages ==
    \/ (RetryCall /\ (cancelled \/ resp'.kind \in PageKinds))
    \/ (RetryExamine /\ wakeAt' \in {wakeAt, clock + Backoff(attempt)})
    \/ RetryWake
    \/ RetryInterrupt
    \/ GetCommitsAppend
    \/ GetCommitsFail
    \/ (gcResult = "none" /\ rpc # "returned" /\ Cancel)

SpecPages == InitPages /\ [][NextPages]_vars

\* --------------------------------------------------------------- NewSyncer

\* The characters strings are made of here.
Alphabet == {"a", "b", "/"}

Strings(n) == UNION {[1..k -> Alphabet] : k \in 0..n}

\* strings.Split(r, "/"): the substrings between the separators, in order;
\* a string without separator is the one part.
RECURSIVE Split(_)
Split(r) ==
    IF \A i \in 1..Len(r) : r[i] # "/"
    THEN <<r>>
    ELSE LET i == CHOOSE j \in 1..Len(r) :
                      r[j] = "/" /\ \A k \in 1..(j - 1) : r[k] # "/"
         IN  <<SubSeq(r, 1, i - 1)>> \o Split(SubSeq(r, i + 1, Len(r)))

\* A check that asks for two parts at least.
ValidPartsLoose(parts) ==
    ~ (Len(parts) < 2 \/ parts[1] = <<>> \/ parts[2] = <<>>)

\* The negation of: len(parts) != 2 || parts[0] == "" || parts[1] == "".
ValidParts(parts) ==
    ~ (Len(parts) # 2 \/ parts[1] = <<>> \/ parts[2] = <<>>)

\* A parser that drops the malformed entries.
RECURSIVE parseSkipsMalformed(_)
parseSkipsMalformed(repos) ==
    IF repos = <<>>
    THEN [err |-> "nil", identifiers |-> <<>>]
    ELSE LET parts == Split(Head(repos))
             rest == parseSkipsMalformed(Tail(repos))
         IN  IF ~ValidParts(parts)
             THEN rest
             ELSE [err |-> "nil",
                   identifiers |-> <<[Owner |-> parts[1], Name |-> parts[2]]>>
                                       \o rest.identifiers]

\* parseRepoIdentifiers: the identifiers in order, or nil and
\* ErrInvalidRepoFormat for the first malformed string.
RECURSIVE parseRepoIdentifiers(_)
parseRepoIdentifiers(repos) ==
    IF repos = <<>>
    THEN [err |-> "nil", identifiers |-> <<>>]
    ELSE LET parts == Split(Head(repos))
             rest == parseRepoIdentifiers(Tail(repos))
         IN  IF ~ValidParts(parts)
             THEN [err |-> "ErrInvalidRepoFormat", identifiers |-> <<>>]
             ELSE IF rest.err # "nil"
             THEN rest
             ELSE [err |-> "nil",
                   identifiers |-> <<[Owner |-> parts[1], Name |-> parts[2]]>>
                                       \o rest.identifiers]

\* NewSyncer: the parse error is returned with no Syncer; otherwise the
\* Syncer holds the parsed identifiers. run (cmd/service) returns the error
\* and calls Start only on the Syncer.
NewSyncer ==
    /\ ctor = "none"
    /\ LET parsed == parseRepoIdentifiers(config)
       IN  /\ ctor' = IF parsed.err = "nil" THEN "ok" ELSE parsed.err
           /\ reposToSync' = parsed.identifiers
           /\ unit' = [u \in 1..Len(parsed.identifiers) |-> PendingUnit]
           /\ tx' = [u \in 1..Len(parsed.identifiers) |-> NoTx]
    /\ UNCHANGED <<config, rngVars, cancelled, spc, tickPending, tickOwed, idx,
                   groupCancelled, cycle, upstream, dbRepos, dbCommits, histVars, retryVars>>

\* SpecParse: NewSyncer on one string, every string of up to MaxStrLen
\* characters.
InitParse ==
    \E r \in Strings(MaxStrLen) :
        /\ BaseState(<<>>)
        /\ config = <<r>>
        /\ ctor = "none"

NextParse == NewSyncer

SpecParse == InitParse /\ [][NextParse]_vars

\* SpecConfig: NewSyncer on a list of up to MaxListLen strings, well-formed
\* and malformed ones, and the cycle loop of the Syncer it returns.
ConfigSamples ==
    {<<"a", "/", "b">>, <<"b", "/", "a">>, <<"a", "b">>,
     <<"a", "/", "b", "/", "a">>, <<"/", "a">>, <<>>}

InitConfig ==
    \E c \in UNION {[1..k -> ConfigSamples] : k \in 0..MaxListLen} :
        /\ BaseState(<<>>)
        /\ config = c
        /\ ctor = "none"

NextConfig ==
    \/ NewSyncer
    \/ (ctor = "ok" /\ BeginCycle)
    \/ (ctor = "ok" /\ Dispatch)
    \/ (ctor = "ok" /\ \E u \in Units : UnitEnter(u))
    \/ (ctor = "ok" /\ \E u \in Units : PoolUnitRun(u))
    \/ (ctor = "ok" /\ EndCycle)
    \/ (ctor = "ok" /\ Tick)
    \/ Cancel
    \/ (ctor = "ok" /\ Shutdown)

SpecConfig == InitConfig /\ [][NextConfig]_vars

\* ------------------------------------------------------------------ claims

\* C1: within one cycle at most 'concurrency' units are active at any moment,
\* also when there are more identifiers than that: an identifier beyond the
\* limit has been handed to the group only when enough of the units before
\* it have completed.
C1_ConcurrencyBound ==
    /\ Cardinality(Active) <= concurrency
    /\ \A u \in Units :
          unit[u].pc # "pending" /\ u > concurrency =>
              Cardinality({v \in 1..(u - 1) : unit[v].pc = "done"}) >= u - concurrency

\* The sixth identifier runs, four others with it, one unit completed.
C1_Witness ==
    \E u \in Units :
        /\ u > concurrency
        /\ unit[u].pc = "begin"
        /\ Cardinality(Active) = concurrency
        /\ \E v \in Units : unit[v].pc = "done"

\* C2: a unit's writes are atomic. While the unit runs, and after it ended
\* with an error at any step, the committed rows of its repository and of its
\* commits are the ones there were when it began; once it committed, the
\* repository row it wrote and every commit it fetched are there together.
C2_Atomicity ==
    \A u \in Units :
        LET r == RepoOf(u) IN
        /\ (unit[u].pc \notin {"pending", "spawned", "done"}
              \/ unit[u].outcome \in {"failed", "cancelled"})
           => /\ RowsOf(r) = unit[u].snapRepos
              /\ CommitsOf(r) = unit[u].snapCommits
        /\ unit[u].outcome = "committed"
           => /\ \E row \in RowsOf(r) : row.id = unit[u].dbRepoID
              /\ CommitsOf(r) = unit[u].snapCommits
                     \cup PrepareCommitBulkInsert(unit[u].dbRepoID, unit[u].commits)

\* A unit failed after it had written the row of a repository the storage
\* did not hold, and the storage does not hold it.
C2_Witness ==
    \E u \in Units :
        /\ unit[u].outcome = "failed"
        /\ unit[u].dbRepoID # 0
        /\ unit[u].snapRepos = {}
        /\ RowsOf(RepoOf(u)) = {}

\* C3: a unit's failure never cancels the cycle's shared context and never
\* keeps another dispatched unit from running: a unit is skipped, or ends
\* with the context's error, only when the context handed to Start is done.
C3_FailureIsolation ==
    /\ ~groupCancelled
    /\ \A u \in Units : unit[u].outcome \in {"skipped", "cancelled"} => cancelled

\* The first unit failed, the second one committed, nothing was cancelled.
C3_Witness ==
    /\ ~cancelled
    /\ \E u, v \in Units :
          /\ u < v
          /\ unit[u].outcome = "failed"
          /\ unit[v].outcome = "committed"

\* C4: the 'since' handed to the commit fetch is the default-since when the
\* storage holds no commit of the repository, and otherwise the greatest
\* stored commit date of the repository plus one second.
C4_SinceRule ==
    \A u \in Units :
        unit[u].pc \in {"getCommits", "persist", "commit"} =>
            LET stored == CommitsOf(RepoOf(u)) IN
            IF stored = {}
            THEN unit[u].since = DefaultSince
            ELSE /\ \E c \in stored : unit[u].since = c.commit_date + 1
                 /\ \A c \in stored : unit[u].since > c.commit_date

\* Two units are about to fetch: one of a repository with no stored commit,
\* one of a repository with stored commits.
C4_Witness ==
    \E u, v \in Units :
        /\ unit[u].pc = "getCommits" /\ unit[v].pc = "getCommits"
        /\ CommitsOf(RepoOf(u)) = {} /\ unit[u].since = DefaultSince
        /\ CommitsOf(RepoOf(v)) # {} /\ unit[v].since > DefaultSince

\* C5: a unit that runs after a unit of the same repository committed, the
\* provider's data unchanged between them, fetches zero commits, and when it
\* commits the stored commits of the repository are the ones there were.
C5_Idempotence ==
    \A u \in Units :
        unit[u].stable =>
            /\ unit[u].pc \in {"persist", "commit", "done"} => unit[u].commits = {}
            /\ unit[u].outcome = "committed" =>
                   CommitsOf(RepoOf(u)) = unit[u].snapCommits

\* The second of two such units committed, for a repository with stored
\* commits.
C5_Witness ==
    \E u \in Units :
        /\ unit[u].stable
        /\ unit[u].outcome = "committed"
        /\ unit[u].snapCommits # {}
        /\ CommitsOf(RepoOf(u)) = unit[u].snapCommits

\* C6: the batch handed to CreateCommits never holds a commit whose
\* (repository, sha) is already stored.
C6_BatchIsNew ==
    \A u \in Units :
        unit[u].pc = "persist" =>
            \A c \in unit[u].commits :
                ~ \E d \in ViewCommits(tx[u]) :
                      d.repository_id = unit[u].dbRepoID /\ d.sha = c.sha

\* A batch that is not empty is about to be handed over, for a repository
\* with stored commits.
C6_Witness ==
    \E u \in Units :
        /\ unit[u].pc = "persist"
        /\ unit[u].commits # {}
        /\ CommitsOf(RepoOf(u)) # {}

\* C7: the 'since' computed for a repository never regresses: each unit's is
\* at least the one computed by the unit of the repository before it.
C7_WatermarkMonotone ==
    [][\A r \in Repos : lastSince[r] # 0 => lastSince'[r] >= lastSince[r]]_vars

\* A unit of the second cycle computed a 'since' beyond the default, the
\* first cycle's unit having stored commits.
C7_Witness ==
    \E u \in Units :
        /\ cycle = 2
        /\ unit[u].pc = "getCommits"
        /\ unit[u].snapCommits # {}
        /\ lastSince[RepoOf(u)] > DefaultSince

\* C8: a unit that fetched zero commits and committed has changed only the
\* last-synced time of the repository row: the metadata columns hold the
\* values the upsert wrote, and the stored commits are the ones there were.
C8_TouchKeepsMetadata ==
    \A u \in Units :
        (unit[u].outcome = "committed" /\ unit[u].commits = {}) =>
            /\ \E row \in RowsOf(RepoOf(u)) :
                  row.id = unit[u].dbRepoID /\ row.meta = unit[u].ghRepo.meta
            /\ CommitsOf(RepoOf(u)) = unit[u].snapCommits

\* C9: rate-limited responses are retried without a limit: with no
\* cancellation, a provider call that has received rate-limited responses
\* only, however many, is retried; retry does not return an error.
C9_RateLimitRetriedIndefinitely ==
    (~cancelled /\ \A k \in 1..Len(trace) : trace[k].kind = "rate")
        => ~ (rpc = "returned" /\ rresult # "ok")

\* C10: after a rate-limited response with reset time R no provider call is
\* made before the clock reaches R; a call that succeeds is the last one and
\* retry returns success, so that one rate-limited response and one success
\* make exactly two provider calls.
C10_WaitsUntilReset ==
    /\ \A k \in 2..Len(trace) :
          trace[k - 1].kind = "rate" => trace[k].at >= trace[k - 1].arg
    /\ \A k \in 1..Len(trace) :
          trace[k].kind = "ok" =>
              k = Len(trace) /\ rpc = "returned" /\ rresult = "ok"
    /\ (rpc = "returned" /\ Len(trace) >= 2
            /\ trace[1].kind = "rate" /\ trace[2].kind = "ok")
       => Len(trace) = 2 /\ rresult = "ok"

\* One rate-limited response whose reset time lay ahead, then a success.
C10_Witness ==
    /\ rpc = "returned"
    /\ rresult = "ok"
    /\ Len(trace) = 2
    /\ trace[1].kind = "rate" /\ trace[1].arg > trace[1].at
    /\ trace[2].kind = "ok" /\ trace[2].at = trace[1].arg

\* C11: when every attempt answers with a 5xx status and nothing is
\* cancelled, retry makes exactly maxRetries provider calls, never more, and
\* then returns the 5xx error of the last attempt.
C11_PersistentServerError ==
    (~cancelled /\ \A k \in 1..Len(trace) : trace[k].kind = "5xx") =>
        /\ Len(trace) <= maxRetries
        /\ rpc = "returned" =>
               /\ Len(trace) = maxRetries
               /\ rresult = "5xx"
               /\ resp = [kind |-> trace[Len(trace)].kind, arg |-> trace[Len(trace)].arg]

\* retry returned after maxRetries calls that all answered 5xx.
C11_Witness ==
    /\ ~cancelled
    /\ rpc = "returned"
    /\ rresult = "5xx"
    /\ Len(trace) = maxRetries
    /\ \A k \in 1..Len(trace) : trace[k].kind = "5xx"

\* C12: a 4xx response that is neither a rate-limit nor a throttle signal is
\* surfaced at once: it is the last provider call, no wait follows it, and
\* with nothing cancelled the error returned is that 4xx error; as the first
\* response it makes exactly one call.
C12_PermanentFailsAtOnce ==
    \A k \in 1..Len(trace) :
        trace[k].kind = "4xx" =>
            /\ k = Len(trace)
            /\ rpc \in {"examine", "returned"}
            /\ clock = trace[k].at
            /\ (rpc = "returned" /\ ~cancelled) => rresult = "4xx"

\* The first response was a 4xx: one call, no time passed, the 4xx returned.
C12_Witness ==
    /\ rpc = "returned"
    /\ rresult = "4xx"
    /\ Len(trace) = 1
    /\ trace[1].kind = "4xx"
    /\ clock = 0

\* C13: for 1 <= k <= maxRetries, k-1 responses with a 5xx status followed
\* by a success return success after exactly k calls: with nothing cancelled,
\* retry does not give up on fewer than maxRetries 5xx responses, and a
\* success after them is the last call and is returned as success.
C13_SucceedsAfterServerErrors ==
    /\ (~cancelled /\ Len(trace) < maxRetries
            /\ \A j \in 1..Len(trace) : trace[j].kind = "5xx")
       => rpc # "returned"
    /\ \A k \in 1..Len(trace) :
          (trace[k].kind = "ok" /\ \A j \in 1..(k - 1) : trace[j].kind = "5xx") =>
              /\ k <= maxRetries
              /\ Len(trace) = k
              /\ rpc = "returned"
              /\ rresult = "ok"

\* maxRetries - 1 responses with a 5xx status, then a success.
C13_Witness ==
    /\ rpc = "returned"
    /\ rresult = "ok"
    /\ Len(trace) = maxRetries
    /\ trace[maxRetries].kind = "ok"
    /\ \A j \in 1..(maxRetries - 1) : trace[j].kind = "5xx"

\* C14: every wait of retry is interruptible: when the context is cancelled
\* while a wait is in progress (its timer has not fired), the next step of
\* retry returns the context's error, without the wait completing and
\* without another provider call.
C14_WaitsInterruptible ==
    [][(rpc = "wait" /\ cancelled /\ wakeAt > clock) =>
          /\ rpc' = "returned"
          /\ rresult' = "cancelled"
          /\ trace' = trace
          /\ clock' = clock]_vars

\* A wait was cut short: retry returned the context's error while the timer
\* of its wait had not fired.
C14_Witness ==
    /\ rpc = "returned"
    /\ rresult = "cancelled"
    /\ resp.kind \in {"rate", "abuse", "5xx"}
    /\ wakeAt > clock

\* C15: GetCommits asks for each page under a retry of its own. The attempts
\* start anew for every page (attempt counts the failed calls of the page
\* asked for, not of the pages before it); a page whose commits were appended
\* is not asked for again; while a later page is retried, and when GetCommits
\* returns its result, the pages before it are in the result, in order.
C15_PagesRetriedIndependently ==
    /\ rpc = "call" => attempt = Len(trace)
    /\ (gcResult = "none" /\ rpc # "returned") =>
           \A i \in 1..Len(allCommits) : allCommits[i] # page
    /\ gcResult = "none" =>
           /\ Len(allCommits) = page - 1
           /\ \A i \in 1..Len(allCommits) : allCommits[i] = i
    /\ gcResult = "ok" =>
           /\ Len(allCommits) = page
           /\ \A i \in 1..Len(allCommits) : allCommits[i] = i

\* The third page failed maxRetries - 1 times with a 5xx status, then
\* succeeded: GetCommits returned the three pages.
C15_Witness ==
    /\ gcResult = "ok"
    /\ allCommits = <<1, 2, 3>>
    /\ Len(trace) = maxRetries
    /\ \A j \in 1..(maxRetries - 1) : trace[j].kind = "5xx"
    /\ clock > 0

\* C16: runSyncCycle returns only after every unit dispatched in the cycle
\* has completed, by success, failure or cancellation: the step that ends a
\* cycle finds every identifier handed over and every unit done, and outside
\* a cycle no unit is running.
C16_CycleWaitsForUnits ==
    /\ [](spc # "cycle" => Active = {})
    /\ [][(spc = "cycle" /\ spc' # "cycle") =>
              /\ idx > Len(reposToSync)
              /\ \A u \in Units : unit[u].pc = "done"]_vars

\* A cycle over more identifiers than the limit has finished.
C16_Witness ==
    /\ spc = "select"
    /\ cycle = 1
    /\ Len(reposToSync) > concurrency
    /\ idx > Len(reposToSync)
    /\ Active = {}

\* C17: Start runs one cycle at once and then one cycle for each tick until
\* cancellation: every tick that fired before the cancellation is followed
\* by a cycle, so Start does not return while such a tick waits in the
\* channel.
C17_EveryTickRunsACycle ==
    (spc = "stopped" /\ cycle < MaxCycles) => ~tickOwed

\* C18: once the context is cancelled Start begins no cycle: no step enters
\* runSyncCycle while the context is done.
C18_NoCycleAfterCancel ==
    [][cancelled => ~(spc # "cycle" /\ spc' = "cycle")]_vars

\* C19: a unit whose check of the context comes after the cancellation
\* returns at once: it begins no transaction, calls the provider not at all
\* and writes nothing; and rows committed before a cancellation stay.
C19_CancelledUnitDoesNothing ==
    /\ [](\A u \in Units :
             unit[u].outcome = "skipped" =>
                 /\ cancelled
                 /\ tx[u] = NoTx
                 /\ unit[u].ghRepo = PendingUnit.ghRepo
                 /\ unit[u].dbRepoID = 0
                 /\ unit[u].commits = {})
    /\ [][\A u \in Units :
             (unit[u].pc = "spawned" /\ cancelled /\ unit'[u].pc # "spawned") =>
                 /\ unit'[u].pc = "done"
                 /\ unit'[u].outcome = "skipped"
                 /\ tx' = tx /\ dbRepos' = dbRepos /\ dbCommits' = dbCommits]_vars
    /\ [][cancelled' =>
             /\ dbCommits \subseteq dbCommits'
             /\ \A row \in dbRepos : \E kept \in dbRepos' : kept.id = row.id]_vars

\* The context was cancelled after the first unit committed; the second unit
\* was skipped, and the first unit's row and commits are stored.
C19_Witness ==
    /\ cancelled
    /\ \E u, v \in Units :
          /\ unit[u].outcome = "committed"
          /\ unit[v].outcome = "skipped"
          /\ RowsOf(RepoOf(u)) # {}
          /\ CommitsOf(RepoOf(u)) # {}
          /\ RowsOf(RepoOf(v)) = {}

\* C20: Start returns only when the context is cancelled; no failure of
\* units makes it return or skip a cycle: after any cycle a tick still begins
\* a cycle, and each cycle begins with every configured identifier to hand
\* over.
C20_OnlyCancellationStops ==
    /\ [](spc = "stopped" => cancelled)
    /\ []((spc = "select" /\ tickPending /\ cycle < MaxCycles) => ENABLED BeginCycle)
    /\ [][(spc # "cycle" /\ spc' = "cycle") =>
              /\ idx' = 1
              /\ Len(unit') = Len(ConfiguredRepos)
              /\ \A u \in Units : unit'[u].pc = "pending"]_vars

\* Every unit of the first cycle failed (nothing is stored, nothing was
\* cancelled), and the second cycle runs a unit for each identifier.
C20_Witness ==
    /\ ~cancelled
    /\ cycle = 2
    /\ dbRepos = {}
    /\ \A u \in Units : unit[u].pc \in {"getRepository", "upsert"}

\* C21: parseRepoIdentifiers succeeds on a string iff it is owner/name with
\* exactly one '/', between an owner and a name that are not empty, and then
\* yields the identifier of that owner and name; every other string fails
\* with the invalid-repository-format error.
C21_ParseAcceptsOwnerSlashName ==
    ctor # "none" =>
        LET r == config[1]
            slashes == {i \in 1..Len(r) : r[i] = "/"}
        IN  IF Cardinality(slashes) = 1 /\ 1 \notin slashes /\ Len(r) \notin slashes
            THEN /\ ctor = "ok"
                 /\ Len(reposToSync) = 1
                 /\ reposToSync[1].Owner \o <<"/">> \o reposToSync[1].Name = r
            ELSE /\ ctor = "ErrInvalidRepoFormat"
                 /\ reposToSync = <<>>

\* A string of owner, '/', name was parsed.
C21_Witness ==
    /\ ctor = "ok"
    /\ config = << <<"a", "b", "/", "b">> >>
    /\ reposToSync = << [Owner |-> <<"a", "b">>, Name |-> <<"b">>] >>

\* C22: when a string of the configured list is malformed, whatever its
\* place and its neighbours, NewSyncer returns an error and no Syncer: no
\* cycle runs, no provider call and no storage write is made.
C22_MalformedConfigIsFatal ==
    (ctor # "none" /\ \E i \in 1..Len(config) : ~ValidParts(Split(config[i]))) =>
        /\ ctor = "ErrInvalidRepoFormat"
        /\ reposToSync = <<>>
        /\ spc = "init" /\ cycle = 0
        /\ \A u \in DOMAIN unit : FALSE
        /\ dbRepos = {} /\ dbCommits = {}
        /\ trace = <<>>

\* NewSyncer failed on a list whose last entry is the malformed one.
C22_Witness ==
    /\ ctor = "ErrInvalidRepoFormat"
    /\ Len(config) = MaxListLen
    /\ \A i \in 1..(Len(config) - 1) : ValidParts(Split(config[i]))
    /\ ~ValidParts(Split(config[Len(config)]))

C24_FirstSyncStoresAll ==
    \A u \in Units :
        (unit[u].outcome = "committed" /\ unit[u].snapRepos = {}
             /\ unit[u].snapCommits = {}) =>
            /\ Cardinality(RowsOf(RepoOf(u))) = 1
            /\ \A row \in RowsOf(RepoOf(u)) :
                  /\ row.github_repo_id = unit[u].ghRepo.github_repo_id
                  /\ row.key = RepoOf(u)
                  /\ {[sha |-> c.sha, date |-> c.commit_date] :
                          c \in {d \in dbCommits : d.repository_id = row.id}}
                       = unit[u].commits
            /\ Cardinality(CommitsOf(RepoOf(u)))
                   = Cardinality({c.sha : c \in unit[u].commits})

\* The first unit of a repository fetched two commits and committed.
C24_Witness ==
    \E u \in Units :
        /\ unit[u].outcome = "committed"
        /\ unit[u].snapRepos = {}
        /\ Cardinality(unit[u].commits) = 2
        /\ Cardinality(CommitsOf(RepoOf(u))) = 2

\* C25: a provider call that fails with a network error, with no HTTP
\* response, is retried as a 5xx response is: with nothing cancelled, retry
\* returns the network error only after maxRetries calls.
C25_NetworkErrorRetried ==
    (rpc = "returned" /\ ~cancelled /\ rresult = "neterr") =>
        Len(trace) = maxRetries

\* C26: commit rows are immutable and never removed: every commit row of a
\* committed state is in every later committed state, with the same values.
C26_CommitsOnlyGrow ==
    [][dbCommits \subseteq dbCommits']_vars

\* In the second cycle a unit failed after it had fetched new commits for a
\* repository with stored commits, and those are stored as before.
C26_Witness ==
    \E u \in Units :
        /\ cycle = 2
        /\ unit[u].outcome \in {"failed", "cancelled"}
        /\ unit[u].dbRepoID # 0
        /\ unit[u].snapCommits # {}
        /\ unit[u].snapCommits \subseteq dbCommits

\* C27: the identity fields of a stored repository record never change: the
\* internal id, owner and name, and provider id of every record of a
\* committed state are those of the record in every later committed state.
C27_IdentityImmutable ==
    [][\A row \in dbRepos :
           \E kept \in dbRepos' :
               /\ kept.id = row.id
               /\ kept.key = row.key
               /\ kept.github_repo_id = row.github_repo_id]_vars

\* A unit committed an update of a stored record with metadata that differ
\* from the stored ones.
C27_Witness ==
    \E u \in Units :
        /\ unit[u].outcome = "committed"
        /\ \E old \in unit[u].snapRepos :
              \E new \in RowsOf(RepoOf(u)) :
                  /\ new.id = old.id
                  /\ new.github_repo_id = old.github_repo_id
                  /\ new.meta # old.meta
                  /\ new.meta = unit[u].ghRepo.meta

\* C28: after every committed unit of a repository that was stored already,
\* the metadata of the stored record are the ones the unit fetched from the
\* provider, whether the unit stored commits or found none.
C28_MetadataFollowsProvider ==
    \A u \in Units :
        (unit[u].outcome = "committed" /\ unit[u].snapRepos # {}) =>
            \A row \in RowsOf(RepoOf(u)) : row.meta = unit[u].ghRepo.meta

\* C29: with a list that names one repository twice, so that two units of it
\* run at once, no committed state has two repository records of one owner
\* and name, nor two commit rows of one repository and sha; every commit row
\* belongs to a stored record; and a unit that failed left no open
\* transaction and no row of its own.
C29_AtMostOnce ==
    /\ \A a, b \in dbRepos : a.key = b.key => a = b
    /\ \A a, b \in dbCommits :
           (a.repository_id = b.repository_id /\ a.sha = b.sha) => a = b
    /\ \A c \in dbCommits : \E row \in dbRepos : row.id = c.repository_id
    /\ Cardinality(dbCommits) <= PushedAt(MaxRev)
    /\ \A u \in Units :
           unit[u].outcome \in {"failed", "cancelled"} => tx[u] = NoTx
    /\ \A u, v \in Units :
           (u # v /\ tx[u].repo # NoRow /\ tx[v].repo # NoRow) =>
               tx[u].repo.key # tx[v].repo.key

\* Two units of one repository committed in the first cycle, and it has one
\* record and its commits.
C29_Witness ==
    \E u, v \in Units :
        /\ u # v
        /\ RepoOf(u) = RepoOf(v)
        /\ cycle = 1
        /\ unit[u].outcome = "committed"
        /\ unit[v].outcome = "committed"
        /\ Cardinality(dbRepos) = 1
        /\ dbCommits # {}

\* C30: within one cycle the unit of a list entry is started at most once: a
\* unit that has returned, with a failure too, stays as it is until the cycle
\* ends, and a unit only starts from the entry the loop handed to g.Go. A
\* cycle that ends with nothing cancelled has run the unit of every entry,
\* and the next cycle starts with every unit to be run again.
C30_UnitOncePerCycle ==
    [][/\ \A u \in Units :
              /\ (unit[u].pc = "done" /\ spc' = "cycle") => unit'[u] = unit[u]
              /\ (unit'[u].pc = "spawned" /\ unit[u].pc # "spawned") =>
                     (unit[u] = PendingUnit /\ idx = u /\ idx' = u + 1)
              /\ (unit'[u].pc = "begin" /\ unit[u].pc # "begin") =>
                     unit[u].pc = "spawned"
       /\ (spc = "cycle" /\ spc' = "select" /\ ~cancelled) =>
              \A u \in Units : unit[u].outcome \in {"committed", "failed"}
       /\ (spc # "cycle" /\ spc' = "cycle") =>
              (idx' = 1 /\ \A u \in Units : unit'[u] = PendingUnit)]_vars

\* Every unit of the first cycle failed, and in the second cycle, with
\* nothing cancelled, a unit has run again up to its commit.
C30_Witness ==
    \E u \in Units :
        /\ cycle = 2
        /\ ~cancelled
        /\ dbRepos = {}
        /\ unit[u].pc = "commit"

\* C31: when the context is done at the moment a failed provider call is
\* examined, retry returns the context's error in that step, whatever the
\* call answered: no wait is started, the clock does not move and no further
\* call is made.
C31_CancelledAtExamine ==
    [][(rpc = "examine" /\ cancelled) =>
           /\ rpc' = "returned"
           /\ rresult' = "cancelled"
           /\ trace' = trace
           /\ clock' = clock
           /\ wakeAt' = wakeAt]_vars

\* The call answered with a 4xx status before the cancellation, and retry
\* returned the context's error.
C31_Witness ==
    /\ rpc = "returned"
    /\ rresult = "cancelled"
    /\ Len(trace) = 2
    /\ trace[1].kind = "rate"
    /\ trace[2].kind = "4xx"

\* C32: the wait after a 5xx response lies in [0.75 b, 1.25 b] with
\* b = min(retryMaxDelay, retryMinDelay * 2^a), where a is the number of 5xx
\* responses the call has received before this one.
C32_BackoffCountsServerErrors ==
    (rpc = "wait" /\ resp.kind = "5xx") =>
        LET a == Cardinality({k \in 1..(Len(trace) - 1) : trace[k].kind = "5xx"})
            d == wakeAt - clock
        IN  /\ 3 * Backoff(a) <= 4 * d
            /\ 4 * d <= 5 * Backoff(a)

C40_NoWaitAfterLastAttempt ==
    (rpc = "wait" /\ resp.kind = "5xx") => attempt < maxRetries - 1

\* C34: a transaction is open only for a unit that is between its Begin and
\* its return, at most concurrency transactions are open at a time, and when
\* no cycle is running (between cycles, and after Start returned) none is.
C34_TransactionsBounded ==
    /\ Cardinality({u \in Units : tx[u] # NoTx}) <= concurrency
    /\ \A u \in Units :
          tx[u] # NoTx <=> unit[u].pc \in {"getRepository", "upsert", "since",
                                            "getCommits", "persist", "commit"}
    /\ spc # "cycle" => \A u \in Units : tx[u] = NoTx

\* As many transactions are open as there are workers, and an identifier
\* waits for a worker.
C34_Witness ==
    /\ Cardinality({u \in Units : tx[u] # NoTx}) = concurrency
    /\ idx <= Len(reposToSync)
    /\ unit[idx].pc = "pending"

\* C35: once the context is cancelled Start eventually returns, whatever the
\* orchestrator was doing: waiting in the select, running a cycle with
\* workers in their units, or with identifiers waiting for a worker.
C35_CancelLeadsToReturn ==
    cancelled ~> (spc = "stopped")

\* The context is cancelled while every worker is in a unit and an
\* identifier waits for a worker.
C35_Witness ==
    /\ cancelled
    /\ spc = "cycle"
    /\ idx <= Len(reposToSync)
    /\ Cardinality(Active) = concurrency
    /\ \A u \in Active : unit[u].pc = "begin"

\* C36: the random source of the Client is used by one worker at a time: no
\* two workers are inside c.r.Float64() at once.
C36_RandomSourceExclusive ==
    \A v, w \in RandCallers :
        (draw[v].pc = "in" /\ draw[w].pc = "in") => v = w

\* C37: cycles never overlap: no cycle begins while one is running, a tick
\* that fires during a cycle leaves the cycle as it is, a cycle begins with
\* no worker of an earlier cycle running, and a unit that is running never
\* sees its cycle end.
C37_CyclesNeverOverlap ==
    [][/\ spc = "cycle" => cycle' = cycle
       /\ (spc = "cycle" /\ tickPending' # tickPending) =>
              (unit' = unit /\ idx' = idx /\ spc' = "cycle")
       /\ cycle' # cycle =>
              /\ cycle' = cycle + 1
              /\ spc \in {"init", "select"}
              /\ spc' = "cycle"
              /\ Active = {}
              /\ \A u \in Units : unit'[u] = PendingUnit
       /\ \A u \in Units :
              unit[u].pc \notin {"pending", "done"} => spc' = "cycle"]_vars

\* A tick waits in the channel while the second cycle runs with every worker
\* in a unit.
C37_Witness ==
    /\ spc = "cycle"
    /\ cycle = 2
    /\ tickPending
    /\ Cardinality(Active) = concurrency

\* C38: after every committed unit the last_synced_at of the repository's
\* record is set, to the time of that unit, whether the record was inserted
\* or updated and whether commits were fetched or none.
C38_LastSyncedAtSet ==
    \A u \in Units :
        unit[u].outcome = "committed" =>
            \A row \in RowsOf(RepoOf(u)) : row.last_synced_at = cycle

\* C39: after every committed unit (the provider's data do not change while
\* a cycle runs) every commit the provider has of the repository, dated at
\* or after DefaultSince, is stored, also one that appeared at the provider
\* with a date not later than the newest stored one.
C39_EveryUpstreamCommitStored ==
    \A u \in Units :
        unit[u].outcome = "committed" =>
            \A sha \in 1..PushedAt(upstream[RepoOf(u)]) :
                DateOf(sha) >= DefaultSince =>
                    \E c \in CommitsOf(RepoOf(u)) : c.sha = sha

====
